---- MODULE Spec2Model ----
(***************************************************************************)
(* diskusage: a terminal program that scans a directory tree, lists files  *)
(* and folders by size and deletes the entries the operator marks.         *)
(*                                                                         *)
(* The model follows src/unnamed/part_000 (the newer of the two copies of  *)
(* the program; src/main.go differs in initialModel, the toggle-select     *)
(* guard and the rendering only).  The filesystem is a finite tree         *)
(* `disk`; path/filepath.Walk and sort.Sort are modelled by what the Go    *)
(* standard library does for trees and slices of this size.                *)
(***************************************************************************)
EXTENDS Integers, Sequences, FiniteSets, TLC

VARIABLES
    pc,          \* "start" | "running" | "exited" | "panicked"
    exitCode,    \* process exit code once pc = "exited" (-1 before)
    args,        \* os.Args[1:]: <<>> or <<[rel, elems]>>
    cwd,         \* working directory: <<>> when it cannot be determined, else <<path>>
    disk,        \* the filesystem: path -> [isDir, size, readable, locked]
    files,       \* m.files
    folders,     \* m.folders
    cursor,      \* m.cursor
    offset,      \* m.offset
    viewMode,    \* m.viewMode
    confirming,  \* m.confirming
    err,         \* m.err: <<>> (nil) or <<path whose removal failed>>
    height,      \* m.height
    width,       \* m.width
    basePath,    \* m.basePath
    visited,     \* history: the paths scanDirectory's callback was called on, in order
    removeCalls, \* history: the os.Remove calls of the event handled last, in order
    switchedFrom,\* history: <<cursor, offset>> before the event handled last, if a "tab"
    armed,       \* history: a "d" was handled and no "y" or "n" since
    cancelled,   \* history: the event handled last was an "n" that found m.confirming set
    frame        \* what View returned last: "" | "error" | "empty" | "list" | "panic"

vars == <<pc, exitCode, args, cwd, disk, files, folders, cursor, offset,
          viewMode, confirming, err, height, width, basePath, visited,
          removeCalls, switchedFrom, armed, cancelled, frame>>

sessionVars == <<files, folders, cursor, offset, viewMode, confirming, err, height,
                 width>>

----------------------------------------------------------------------------
(* Bounds of the model.                                                    *)

\* file sizes range over 0..MaxSize
MaxSize == 2
\* the heights a resize delivers range from Chrome - MaxShort (fewer rows
\* than the chrome) to Chrome + MaxRows
MaxShort == 1
MaxRows == 1
\* with a height below the chrome the cursor and the offset drift without
\* limit; the model follows them MaxDrift steps past the collection
MaxDrift == 0

----------------------------------------------------------------------------
(* Names and paths.  A name is a sequence of characters, a path a sequence *)
(* of names (the absolute path /r/d/.g is <<r, d, .g>>).                   *)

Alphabet == <<".", "a", "b", "c", "d", "f", "g", "o", "r">>

Rank(ch) == CHOOSE i \in 1..Len(Alphabet) : Alphabet[i] = ch

RECURSIVE NameLess(_, _)
\* Go's string comparison s < t (bytewise lexical), the order of readDirNames
NameLess(s, t) ==
    IF t = <<>> THEN FALSE
    ELSE IF s = <<>> THEN TRUE
    ELSE IF Rank(Head(s)) # Rank(Head(t)) THEN Rank(Head(s)) < Rank(Head(t))
    ELSE NameLess(Tail(s), Tail(t))

\* strings.HasPrefix(s, ".")
HasDotPrefix(s) == Len(s) >= 1 /\ s[1] = "."

\* filepath.Base of a non-empty absolute path
Base(path) == path[Len(path)]

\* filepath.Join(path, name)
Join(path, name) == Append(path, name)

Parent(path) == SubSeq(path, 1, Len(path) - 1)

IsUnder(q, p) == Len(q) > Len(p) /\ SubSeq(q, 1, Len(p)) = p

----------------------------------------------------------------------------
(* The filesystem.                                                         *)

Exists(fs, p) == p \in DOMAIN fs

ChildNames(fs, p) == {Base(q) : q \in {x \in DOMAIN fs : Parent(x) = p}}

RECURSIVE SortNames(_)
\* a set of names as the sorted sequence readDirNames returns
SortNames(S) ==
    IF S = {} THEN <<>>
    ELSE LET least == CHOOSE s \in S : \A t \in S \ {s} : NameLess(s, t)
         IN <<least>> \o SortNames(S \ {least})

\* readDirNames(path): the sorted names, or an error for an unreadable directory
ReadDirNames(fs, p) ==
    IF fs[p].readable
    THEN [err |-> "nil", names |-> SortNames(ChildNames(fs, p))]
    ELSE [err |-> "EACCES", names |-> <<>>]

\* os.Remove(path): whether it succeeds.  It fails on a missing path, on a
\* directory that is not empty and on an entry the process may not unlink.
RemoveOk(fs, p) ==
    /\ Exists(fs, p)
    /\ ~fs[p].locked
    /\ (fs[p].isDir => ChildNames(fs, p) = {})

\* the filesystem after a successful os.Remove(path)
RemoveFrom(fs, p) == [q \in (DOMAIN fs) \ {p} |-> fs[q]]

----------------------------------------------------------------------------
(* path/filepath.Walk, with the two callbacks of the program.  A callback  *)
(* is named by a tag; its captured variables travel in `acc`.              *)

\* files and folders of scanDirectory, size of getDirSize; calls logs the paths the
\* callback was called on
EmptyAcc == [files |-> <<>>, folders |-> <<>>, size |-> 0, calls |-> <<>>]

NewItem(p, s) == [Path |-> p, Size |-> s, IsSelected |-> FALSE]

RECURSIVE walk(_, _, _, _)
RECURSIVE walkNames(_, _, _, _, _, _)

\* filepath.Walk(root, fn): the error it returns and the callback's variables
Walk(fs, root, fn, acc) ==
    LET r == walk(fs, root, fn, acc)
    IN IF r.ret = "SkipDir" THEN [ret |-> "nil", acc |-> r.acc] ELSE r

\* the callback of getDirSize
SizeFn(fs, p, e, acc) ==
    IF e # "nil" THEN [ret |-> e, acc |-> acc]
    ELSE IF ~fs[p].isDir
    THEN [ret |-> "nil", acc |-> [acc EXCEPT !.size = @ + fs[p].size]]
    ELSE [ret |-> "nil", acc |-> acc]

getDirSize(fs, p) ==
    LET r == Walk(fs, p, "size", EmptyAcc)
    IN [size |-> r.acc.size, err |-> r.ret]

\* ScanFn that lists a directory with what getDirSize had summed when it failed
ScanFnPartialSize(fs, p, e, acc) ==
    IF e # "nil" THEN [ret |-> "nil", acc |-> acc]
    ELSE IF HasDotPrefix(Base(p))
    THEN IF fs[p].isDir THEN [ret |-> "SkipDir", acc |-> acc]
                        ELSE [ret |-> "nil", acc |-> acc]
    ELSE IF fs[p].isDir
    THEN LET s == getDirSize(fs, p)
         IN [ret |-> "nil",
             acc |-> [acc EXCEPT !.folders = Append(@, NewItem(p, s.size))]]
    ELSE [ret |-> "nil",
          acc |-> [acc EXCEPT !.files = Append(@, NewItem(p, fs[p].size))]]

\* ScanFn returning nil, not filepath.SkipDir, for a dot-named directory
ScanFnNoSkip(fs, p, e, acc) ==
    IF e # "nil" THEN [ret |-> "nil", acc |-> acc]
    ELSE IF HasDotPrefix(Base(p)) THEN [ret |-> "nil", acc |-> acc]
    ELSE IF fs[p].isDir
    THEN LET s == getDirSize(fs, p)
         IN IF s.err # "nil" THEN [ret |-> "nil", acc |-> acc]
            ELSE [ret |-> "nil",
                  acc |-> [acc EXCEPT !.folders = Append(@, NewItem(p, s.size))]]
    ELSE [ret |-> "nil",
          acc |-> [acc EXCEPT !.files = Append(@, NewItem(p, fs[p].size))]]

\* the callback of scanDirectory
ScanFn(fs, p, e, acc) ==
    IF e # "nil" THEN [ret |-> "nil", acc |-> acc]
    ELSE IF HasDotPrefix(Base(p))
    THEN IF fs[p].isDir THEN [ret |-> "SkipDir", acc |-> acc]
                        ELSE [ret |-> "nil", acc |-> acc]
    ELSE IF fs[p].isDir
    THEN LET s == getDirSize(fs, p)
         IN IF s.err # "nil" THEN [ret |-> "nil", acc |-> acc]
            ELSE [ret |-> "nil",
                  acc |-> [acc EXCEPT !.folders = Append(@, NewItem(p, s.size))]]
    ELSE [ret |-> "nil",
          acc |-> [acc EXCEPT !.files = Append(@, NewItem(p, fs[p].size))]]

Callback(fs, fn, p, e, acc) ==
    LET logged == [acc EXCEPT !.calls = Append(@, p)]
    IN IF fn = "scan" THEN ScanFn(fs, p, e, logged) ELSE SizeFn(fs, p, e, logged)

\* filepath.Walk's walk: Lstat of the root fails for a missing path; a directory
\* is listed before the callback sees it; SkipDir from a directory skips it
walk(fs, p, fn, acc) ==
    IF ~Exists(fs, p) THEN Callback(fs, fn, p, "ENOENT", acc)
    ELSE IF ~fs[p].isDir THEN Callback(fs, fn, p, "nil", acc)
    ELSE LET rd == ReadDirNames(fs, p)
             r1 == Callback(fs, fn, p, rd.err, acc)
         IN IF rd.err # "nil" \/ r1.ret # "nil" THEN r1
            ELSE walkNames(fs, p, rd.names, 1, fn, r1.acc)

walkNames(fs, p, names, i, fn, acc) ==
    IF i > Len(names) THEN [ret |-> "nil", acc |-> acc]
    ELSE LET filename == Join(p, names[i])
             r == walk(fs, filename, fn, acc)
         IN IF r.ret # "nil" /\ (~fs[filename].isDir \/ r.ret # "SkipDir")
            THEN r
            ELSE walkNames(fs, p, names, i + 1, fn, r.acc)

----------------------------------------------------------------------------
(* sort.Sort(Items): for slices of fewer than 12 elements Go's sort is the *)
(* insertion sort below, with Items.Less and Items.Swap.                   *)

\* Less with the comparison turned around
LessAscending(items, j, k) == items[j].Size < items[k].Size

\* Items.Less(j, k)
Less(items, j, k) == items[j].Size > items[k].Size

\* Items.Swap(j, k)
Swap(items, j, k) == [items EXCEPT ![j] = items[k], ![k] = items[j]]

RECURSIVE SiftDown(_, _)
\* the inner loop: for j := i; j > a && Less(j, j-1); j-- { Swap(j, j-1) }
SiftDown(items, j) ==
    IF j > 1 /\ Less(items, j, j - 1)
    THEN SiftDown(Swap(items, j, j - 1), j - 1)
    ELSE items

RECURSIVE InsertionSort(_, _)
\* the outer loop: for i := a + 1; i < b; i++
InsertionSort(items, i) ==
    IF i > Len(items) THEN items
    ELSE InsertionSort(SiftDown(items, i), i + 1)

Sort(items) == InsertionSort(items, 2)

\* scanDirectory(path): (files, folders, err)
scanDirectory(fs, p) ==
    LET r == Walk(fs, p, "scan", EmptyAcc)
    IN [files |-> Sort(r.acc.files), folders |-> Sort(r.acc.folders), err |-> r.ret,
        calls |-> r.acc.calls]

\* filepath.Abs(path): an absolute path is kept, a relative one is joined to the
\* working directory and fails when that cannot be determined
Abs(arg, wd) ==
    IF ~arg.rel THEN [path |-> arg.elems, err |-> "nil"]
    ELSE IF wd = <<>> THEN [path |-> <<>>, err |-> "ENOENT"]
    ELSE [path |-> wd[1] \o arg.elems, err |-> "nil"]

----------------------------------------------------------------------------
(* The trees and command lines the program is started on.                  *)

Chrome == 4
DefaultHeight == 10

\* width: 100 of initialModel
DefaultWidth == 100

NoEntry == [kind |-> "none", size |-> 0, readable |-> TRUE, locked |-> FALSE]

FileOpts(sizes, locks) ==
    {[kind |-> "file", size |-> s, readable |-> TRUE, locked |-> l] :
        s \in sizes, l \in locks}

DirOpts(reads, locks) ==
    {[kind |-> "dir", size |-> 0, readable |-> r, locked |-> l] :
        r \in reads, l \in locks}

\* the places of the tree, relative to the root: a, b, c, d, d/f, d/.g, d/.g/o
Skeleton ==
    << <<>>,
       << <<"a">> >>, << <<"b">> >>, << <<"c">> >>, << <<"d">> >>,
       << <<"d">>, <<"f">> >>, << <<"d">>, <<".", "g">> >>,
       << <<"d">>, <<".", "g">>, <<"o">> >> >>

PlainRoot == << <<"r">> >>
DotRoot == << <<".", "r">> >>

\* the tree with root path `root` whose place Skeleton[i] holds choice[i]; an
\* entry exists when it and all the places above it do, those being directories
MkDisk(root, choice) ==
    LET Idx(rel) == CHOOSE i \in 1..Len(Skeleton) : Skeleton[i] = rel
        Present(i) ==
            /\ choice[i].kind # "none"
            /\ \A n \in 0..(Len(Skeleton[i]) - 1) :
                   choice[Idx(SubSeq(Skeleton[i], 1, n))].kind = "dir"
        live == {i \in 1..Len(Skeleton) : Present(i)}
        At(p) == CHOOSE i \in live : root \o Skeleton[i] = p
    IN [p \in {root \o Skeleton[i] : i \in live} |->
           [isDir |-> choice[At(p)].kind = "dir", size |-> choice[At(p)].size,
            readable |-> choice[At(p)].readable, locked |-> choice[At(p)].locked]]

\* the trees the scan is checked on
ScanChoices ==
    (DirOpts(BOOLEAN, {FALSE}) \cup FileOpts({MaxSize}, {FALSE}) \cup {NoEntry})
    \X ({NoEntry} \cup FileOpts(0..MaxSize, {FALSE}))
    \X ({NoEntry} \cup FileOpts(0..MaxSize, {FALSE}) \cup DirOpts({TRUE}, {FALSE}))
    \X ({NoEntry} \cup FileOpts(0..MaxSize, {FALSE}))
    \X ({NoEntry} \cup DirOpts(BOOLEAN, {FALSE}))
    \X ({NoEntry} \cup FileOpts(0..MaxSize, {FALSE}))
    \X ({NoEntry} \cup FileOpts({1}, {FALSE}) \cup DirOpts(BOOLEAN, {FALSE}))
    \X ({NoEntry} \cup FileOpts({MaxSize}, {FALSE}))

\* the trees the session is checked on: a root directory with at most two
\* files, the smaller of which may be locked, or no root at all
SessionChoices ==
    (DirOpts({TRUE}, {FALSE}) \cup {NoEntry})
    \X ({NoEntry} \cup FileOpts({1}, BOOLEAN))
    \X ({NoEntry} \cup FileOpts({MaxSize}, {FALSE}))
    \X {NoEntry}
    \X {NoEntry}
    \X {NoEntry}
    \X {NoEntry}
    \X {NoEntry}

AbsArg(p) == [rel |-> FALSE, elems |-> p]
\* the argument "."
DotArg == [rel |-> TRUE, elems |-> <<>>]

\* a width too narrow for the columns of View
NarrowWidth == 40

\* the heights a terminal reports: around the four lines of the chrome
Heights == (Chrome - MaxShort)..(Chrome + MaxRows)

\* the sizes <<height, width>> a terminal reports: short ones of the default
\* width, and a narrow one of the default height
WindowSizes ==
    {<<h, DefaultWidth>> : h \in Heights} \cup {<<DefaultHeight, NarrowWidth>>}

InitWith(roots, choices, argsets, wds) ==
    /\ pc = "start"
    /\ exitCode = -1
    /\ \E root \in roots, choice \in choices :
          /\ disk = MkDisk(root, choice)
          /\ \E a \in argsets \cup {<<AbsArg(root)>>} : args = a
          /\ \E w \in wds \cup {<<root>>} : cwd = w
    /\ files = <<>>
    /\ folders = <<>>
    /\ cursor = 0
    /\ offset = 0
    /\ viewMode = ""
    /\ confirming = FALSE
    /\ err = <<>>
    /\ height = 0
    /\ width = 0
    /\ frame = ""
    /\ basePath = <<>>
    /\ visited = <<>>
    /\ removeCalls = <<>>
    /\ switchedFrom = <<>>
    /\ armed = FALSE
    /\ cancelled = FALSE

Init == InitWith({PlainRoot}, SessionChoices, {}, {})

ScanInit == InitWith({PlainRoot, DotRoot}, ScanChoices, {<<>>, <<DotArg>>}, {<<>>})

----------------------------------------------------------------------------
(* model.View.  Names and paths are rendered as character strings.         *)

\* items := m.files; if m.viewMode == "folders" { items = m.folders }
Items == IF viewMode = "folders" THEN folders ELSE files

MaxI(a, b) == IF a > b THEN a ELSE b

MinI(a, b) == IF a < b THEN a ELSE b

Ok(s) == [panic |-> FALSE, out |-> s]

\* a slice expression whose bounds are out of range
Panics == [panic |-> TRUE, out |-> <<>>]

\* s[lo:hi] of Go, with 0-based bounds: panics unless 0 <= lo <= hi <= len(s)
Slice(s, lo, hi) ==
    IF lo < 0 \/ hi > Len(s) \/ lo > hi THEN Panics
    ELSE Ok(SubSeq(s, lo + 1, hi))

Ellipsis == <<".", ".", ".">>

\* truncateString(s, maxLen)
truncateString(s, maxLen) ==
    IF Len(s) <= maxLen THEN Ok(s)
    ELSE LET head == Slice(s, 0, maxLen - 3)
         IN IF head.panic THEN Panics ELSE Ok(head.out \o Ellipsis)

\* truncateFromStart(s, maxLen)
truncateFromStart(s, maxLen) ==
    IF Len(s) <= maxLen THEN Ok(s)
    ELSE LET tail == Slice(s, Len(s) - (maxLen - 3), Len(s))
         IN IF tail.panic THEN Panics ELSE Ok(Ellipsis \o tail.out)

RECURSIVE JoinNames(_)
\* the names of a relative path joined by "/"
JoinNames(names) ==
    IF names = <<>> THEN <<>>
    ELSE IF Len(names) = 1 THEN names[1]
    ELSE names[1] \o <<"/">> \o JoinNames(Tail(names))

\* getRelativePath(fullPath, basePath): filepath.Rel(basePath, fullPath), the
\* full path being the base, a path under it or a path above it
getRelativePath(fullPath, base) ==
    IF fullPath = base THEN <<".">>
    ELSE IF IsUnder(fullPath, base)
    THEN JoinNames(SubSeq(fullPath, Len(base) + 1, Len(fullPath)))
    ELSE JoinNames([n \in 1..(Len(base) - Len(fullPath)) |-> <<".", ".">>])

\* nameWidth := m.width - sizeWidth - selectWidth - minPathWidth - 6, at most 100
NameWidth == MinI(width - 8 - 3 - 30 - 6, 100)

\* pathWidth := m.width - sizeWidth - nameWidth - selectWidth - 6
PathWidth == width - 8 - NameWidth - 3 - 6

\* visibleHeight := m.height - 4, at least 1
VisibleRows == MaxI(1, height - 4)

\* m.offset after View's bounds: 0 <= offset <= max(0, len(items) - visibleHeight)
ViewOffset ==
    LET maxOffset == MaxI(Len(Items) - VisibleRows, 0)
    IN MinI(MaxI(offset, 0), maxOffset)

\* endIdx := m.offset + visibleHeight, at most len(items)
ViewEnd == MinI(ViewOffset + VisibleRows, Len(Items))

\* the line of one item: whether formatting it panics
RowPanics(item) ==
    \/ truncateString(Base(item.Path), NameWidth).panic
    \/ truncateFromStart(getRelativePath(Parent(item.Path), basePath), PathWidth).panic

\* View without the error frame
ViewOfItems ==
    IF Len(Items) = 0 THEN "empty"
    ELSE IF \E i \in (ViewOffset + 1)..ViewEnd : RowPanics(Items[i]) THEN "panic"
    ELSE "list"

\* View(): the kind of frame it returns, or "panic"
View ==
    IF err # <<>> THEN "error"
    ELSE IF Len(Items) = 0 THEN "empty"
    ELSE LET lo == ViewOffset
             hi == ViewEnd
         IN \* visibleItems := items[m.offset:endIdx]
            IF lo < 0 \/ hi > Len(Items) \/ lo > hi THEN "panic"
            ELSE IF \E i \in (lo + 1)..hi : RowPanics(Items[i]) THEN "panic"
            ELSE "list"

\* the program renders after every message; a panic in View ends it
Rendered ==
    LET v == View'
    IN /\ frame' = v
       /\ pc' = IF v = "panic" THEN "panicked" ELSE "running"

\* a panic in Update ends the program before it renders
UpdatePanics ==
    /\ pc' = "panicked"
    /\ frame' = frame

----------------------------------------------------------------------------
(* main and initialModel.                                                  *)

\* the history variables after an event that removes nothing, is no "tab" and
\* cancels nothing
Plain == removeCalls' = <<>> /\ switchedFrom' = <<>> /\ cancelled' = FALSE

Exit(code) ==
    /\ pc' = "exited"
    /\ exitCode' = code
    /\ UNCHANGED <<sessionVars, basePath, visited, frame>>

\* main: usage error, initialModel, then tea.NewProgram(...).Run()
Main ==
    /\ pc = "start"
    /\ UNCHANGED <<args, cwd, disk, removeCalls, switchedFrom, armed, cancelled>>
    /\ IF Len(args) < 1 THEN Exit(1)
       ELSE LET a == Abs(args[1], cwd)
                s == scanDirectory(disk, a.path)
            IN IF a.err # "nil" THEN Exit(1)
               ELSE IF s.err # "nil" THEN Exit(1)
               ELSE /\ exitCode' = exitCode
                    /\ files' = s.files
                    /\ folders' = s.folders
                    /\ viewMode' = "files"
                    /\ height' = DefaultHeight
                    /\ width' = DefaultWidth
                    /\ basePath' = a.path
                    /\ visited' = s.calls
                    /\ UNCHANGED <<cursor, offset, confirming, err>>
                    /\ Rendered

----------------------------------------------------------------------------
(* model.Update: one action per message.                                   *)

\* the part of the cursor's and the offset's range the model follows
Followed ==
    LET n == MaxI(Len(files), Len(folders))
    IN /\ cursor \in (0 - MaxDrift)..(n + MaxDrift)
       /\ offset \in (0 - MaxDrift)..(n + MaxDrift)

\* what no key touches
KeyFrame ==
    /\ pc = "running"
    /\ UNCHANGED <<exitCode, args, cwd, basePath, height, width, visited>>

\* case "ctrl+c", "q": return m, tea.Quit; Run returns nil and main ends.  The
\* process is gone: its memory is no longer part of the state.
Quit ==
    /\ pc = "running"
    /\ pc' = "exited"
    /\ exitCode' = 0
    /\ files' = <<>>
    /\ folders' = <<>>
    /\ cursor' = 0
    /\ offset' = 0
    /\ viewMode' = ""
    /\ confirming' = FALSE
    /\ err' = <<>>
    /\ height' = 0
    /\ width' = 0
    /\ frame' = ""
    /\ basePath' = <<>>
    /\ Plain
    /\ armed' = FALSE
    /\ UNCHANGED <<args, cwd, disk, visited>>

\* case "up", "k"
MoveUp ==
    /\ KeyFrame
    /\ IF cursor > 0
       THEN /\ cursor' = cursor - 1
            /\ offset' = IF cursor - 1 < offset THEN cursor - 1 ELSE offset
       ELSE UNCHANGED <<cursor, offset>>
    /\ Plain
    /\ UNCHANGED <<disk, files, folders, viewMode, confirming, err, armed>>
    /\ Rendered

\* case "down", "j"
MoveDown ==
    /\ KeyFrame
    /\ IF cursor < Len(Items) - 1
       THEN /\ cursor' = cursor + 1
            /\ offset' = IF cursor + 1 >= offset + height - 4
                         THEN cursor + 1 - height + 5
                         ELSE offset
       ELSE UNCHANGED <<cursor, offset>>
    /\ Plain
    /\ UNCHANGED <<disk, files, folders, viewMode, confirming, err, armed>>
    /\ Rendered

\* case "pageup"
PageUp ==
    /\ KeyFrame
    /\ offset' = MaxI(offset - (height - 4), 0)
    /\ cursor' = MaxI(cursor - (height - 4), 0)
    /\ Plain
    /\ UNCHANGED <<disk, files, folders, viewMode, confirming, err, armed>>
    /\ Followed'
    /\ Rendered

\* case "pagedown"
PageDown ==
    /\ KeyFrame
    /\ LET o1 == offset + (height - 4)
           maxOffset == Len(Items) - (height - 4)
           o2 == IF o1 > maxOffset THEN maxOffset ELSE o1
           c1 == cursor + (height - 4)
       IN /\ offset' = IF o2 < 0 THEN 0 ELSE o2
          /\ cursor' = IF c1 >= Len(Items) THEN Len(Items) - 1 ELSE c1
    /\ Plain
    /\ UNCHANGED <<disk, files, folders, viewMode, confirming, err, armed>>
    /\ Followed'
    /\ Rendered

\* case "home"
Home ==
    /\ KeyFrame
    /\ cursor' = 0
    /\ offset' = 0
    /\ Plain
    /\ UNCHANGED <<disk, files, folders, viewMode, confirming, err, armed>>
    /\ Rendered

\* case "end"
End ==
    /\ KeyFrame
    /\ cursor' = Len(Items) - 1
    /\ offset' = MaxI(Len(Items) - (height - 4), 0)
    /\ Plain
    /\ UNCHANGED <<disk, files, folders, viewMode, confirming, err, armed>>
    /\ Rendered

\* map[string]string{"files": "folders", "folders": "files"}[m.viewMode]
OtherView(v) == IF v = "files" THEN "folders" ELSE IF v = "folders" THEN "files" ELSE ""

\* SwitchView that leaves the offset where it was
SwitchViewKeepsOffset ==
    /\ KeyFrame
    /\ viewMode' = OtherView(viewMode)
    /\ cursor' = 0
    /\ offset' = offset
    /\ removeCalls' = <<>>
    /\ switchedFrom' = <<cursor, offset>>
    /\ cancelled' = FALSE
    /\ UNCHANGED <<disk, files, folders, confirming, err, armed>>
    /\ Rendered

\* case "tab"
SwitchView ==
    /\ KeyFrame
    /\ viewMode' = OtherView(viewMode)
    /\ cursor' = 0
    /\ offset' = 0
    /\ removeCalls' = <<>>
    /\ switchedFrom' = <<cursor, offset>>
    /\ cancelled' = FALSE
    /\ UNCHANGED <<disk, files, folders, confirming, err, armed>>
    /\ Rendered

\* Flip that selects the item whatever its flag was
FlipSelects(items, i) == [items EXCEPT ![i + 1].IsSelected = TRUE]

\* items[i].IsSelected = !items[i].IsSelected
Flip(items, i) == [items EXCEPT ![i + 1].IsSelected = ~@]

\* case " ": an index below 0 passes the guard m.cursor < len(...) and the
\* index expression panics
ToggleSelect ==
    /\ KeyFrame
    /\ IF viewMode = "files" /\ cursor < Len(files)
       THEN IF cursor < 0
            THEN UNCHANGED <<files, folders>>
            ELSE files' = Flip(files, cursor) /\ folders' = folders
       ELSE IF viewMode = "folders" /\ cursor < Len(folders)
       THEN IF cursor < 0
            THEN UNCHANGED <<files, folders>>
            ELSE folders' = Flip(folders, cursor) /\ files' = files
       ELSE UNCHANGED <<files, folders>>
    /\ Plain
    /\ UNCHANGED <<disk, cursor, offset, viewMode, confirming, err, armed>>
    /\ IF cursor < 0 /\ cursor < Len(Items) THEN UpdatePanics ELSE Rendered

\* case "d"
RequestDelete ==
    /\ KeyFrame
    /\ confirming' = TRUE
    /\ Plain
    /\ armed' = TRUE
    /\ UNCHANGED <<disk, files, folders, cursor, offset, viewMode, err>>
    /\ Rendered

RECURSIVE DeleteLoop(_, _, _, _, _)
\* for i, item := range *items: os.Remove each selected item, stop at the first
\* failure; the result is the filesystem, the items, m.err and the calls made
DeleteLoop(fs, items, i, e, calls) ==
    IF i > Len(items) THEN [fs |-> fs, items |-> items, err |-> e, calls |-> calls]
    ELSE IF ~items[i].IsSelected THEN DeleteLoop(fs, items, i + 1, e, calls)
    ELSE IF ~RemoveOk(fs, items[i].Path)
    THEN [fs |-> fs, items |-> items, err |-> <<items[i].Path>>,
          calls |-> Append(calls, items[i].Path)]
    ELSE DeleteLoop(RemoveFrom(fs, items[i].Path),
                    [items EXCEPT ![i].IsSelected = FALSE], i + 1, e,
                    Append(calls, items[i].Path))

\* ConfirmDelete that goes through the selected items of both collections
ConfirmDeleteBothViews ==
    /\ KeyFrame
    /\ IF confirming
       THEN LET r == DeleteLoop(disk, files, 1, err, <<>>)
                q == DeleteLoop(r.fs, folders, 1, r.err, r.calls)
            IN /\ disk' = q.fs
               /\ removeCalls' = q.calls
               /\ err' = q.err
               /\ files' = r.items
               /\ folders' = q.items
               /\ confirming' = FALSE
       ELSE /\ removeCalls' = <<>>
            /\ UNCHANGED <<disk, err, files, folders, confirming>>
    /\ switchedFrom' = <<>>
    /\ armed' = FALSE
    /\ cancelled' = FALSE
    /\ UNCHANGED <<cursor, offset, viewMode>>
    /\ Rendered

\* ConfirmDelete without the test of m.confirming
ConfirmDeleteUnguarded ==
    /\ KeyFrame
    /\ LET r == DeleteLoop(disk, Items, 1, err, <<>>)
       IN /\ disk' = r.fs
          /\ removeCalls' = r.calls
          /\ err' = r.err
          /\ IF viewMode = "folders"
             THEN folders' = r.items /\ files' = files
             ELSE files' = r.items /\ folders' = folders
          /\ confirming' = FALSE
    /\ switchedFrom' = <<>>
    /\ armed' = FALSE
    /\ cancelled' = FALSE
    /\ UNCHANGED <<cursor, offset, viewMode>>
    /\ Rendered

\* case "y"
ConfirmDelete ==
    /\ KeyFrame
    /\ IF confirming
       THEN LET r == DeleteLoop(disk, Items, 1, err, <<>>)
            IN /\ disk' = r.fs
               /\ removeCalls' = r.calls
               /\ err' = r.err
               /\ IF viewMode = "folders"
                  THEN folders' = r.items /\ files' = files
                  ELSE files' = r.items /\ folders' = folders
               /\ confirming' = FALSE
       ELSE /\ removeCalls' = <<>>
            /\ UNCHANGED <<disk, err, files, folders, confirming>>
    /\ switchedFrom' = <<>>
    /\ armed' = FALSE
    /\ cancelled' = FALSE
    /\ UNCHANGED <<cursor, offset, viewMode>>
    /\ Rendered

\* CancelDelete that also drops the selection of both collections
CancelDeleteDeselects ==
    /\ KeyFrame
    /\ confirming' = FALSE
    /\ files' = [i \in 1..Len(files) |-> [files[i] EXCEPT !.IsSelected = FALSE]]
    /\ folders' = [i \in 1..Len(folders) |-> [folders[i] EXCEPT !.IsSelected = FALSE]]
    /\ removeCalls' = <<>>
    /\ switchedFrom' = <<>>
    /\ cancelled' = confirming
    /\ armed' = FALSE
    /\ UNCHANGED <<disk, cursor, offset, viewMode, err>>
    /\ Rendered

\* case "n"
CancelDelete ==
    /\ KeyFrame
    /\ confirming' = IF confirming THEN FALSE ELSE confirming
    /\ removeCalls' = <<>>
    /\ switchedFrom' = <<>>
    /\ cancelled' = confirming
    /\ armed' = FALSE
    /\ UNCHANGED <<disk, files, folders, cursor, offset, viewMode, err>>
    /\ Rendered

\* case tea.WindowSizeMsg
Resize ==
    /\ pc = "running"
    /\ \E size \in WindowSizes : height' = size[1] /\ width' = size[2]
    /\ Plain
    /\ UNCHANGED <<exitCode, args, cwd, disk, basePath, visited, files, folders,
                   cursor, offset, viewMode, confirming, err, armed>>
    /\ Rendered

Update ==
    \/ Quit
    \/ MoveUp
    \/ MoveDown
    \/ PageUp
    \/ PageDown
    \/ Home
    \/ End
    \/ SwitchView
    \/ ToggleSelect
    \/ RequestDelete
    \/ ConfirmDelete
    \/ CancelDelete
    \/ Resize

Next == Main \/ Update

Spec == Init /\ [][Next]_vars

\* the scan alone, on every tree of ScanChoices
ScanNext == Main

SpecScan == ScanInit /\ [][ScanNext]_vars

----------------------------------------------------------------------------
(* Notions the claims are stated with.                                     *)

\* a navigation event: move-up, move-down, page-up, page-down, jump-home,
\* jump-end or switch-view
NavStep ==
    MoveUp \/ MoveDown \/ PageUp \/ PageDown \/ Home \/ End \/ SwitchView

CursorInvariant ==
    Items # <<>> =>
        /\ 0 <= cursor /\ cursor < Len(Items)
        /\ 0 <= offset /\ offset <= cursor /\ cursor <= offset + VisibleRows - 1

SelectedIdx(items) == {i \in 1..Len(items) : items[i].IsSelected}

PathsOf(items) == {items[i].Path : i \in 1..Len(items)}

\* the root the program was started on
RootPath == Abs(args[1], cwd).path

\* p has a dot-named component at or below position n
DotBelow(p, n) == \E k \in n..Len(p) : HasDotPrefix(p[k])

RECURSIVE SumSizes(_, _)
SumSizes(fs, S) ==
    IF S = {} THEN 0
    ELSE LET p == CHOOSE q \in S : TRUE IN fs[p].size + SumSizes(fs, S \ {p})

SortedDesc(items) ==
    \A i \in 1..(Len(items) - 1) : items[i].Size >= items[i + 1].Size

----------------------------------------------------------------------------
(* C1.  Cursor invariant: after a move, page, jump or switch-view event    *)
(* the cursor is an index of the non-empty active collection and           *)
(* 0 <= offset <= cursor <= offset + visibleRows - 1, for every viewport   *)
(* height.  Stated as what each such event must preserve from a state      *)
(* that satisfies it (the state after construction does).                  *)
C1_CursorInvariant ==
    [][(NavStep /\ CursorInvariant) => CursorInvariant']_vars

(* C2.  Confirm-delete when every selected item of the active collection   *)
(* can be removed: afterwards nothing of the active collection is          *)
(* selected, the items that were selected are absent from it, and          *)
(* confirming is false.                                                    *)
C2_ConfirmDeleteAllRemoved ==
    [][(/\ ConfirmDelete
        /\ confirming
        /\ \A i \in SelectedIdx(Items) : RemoveOk(disk, Items[i].Path))
       => (/\ SelectedIdx(Items') = {}
           /\ \A i \in SelectedIdx(Items) : Items[i].Path \notin PathsOf(Items')
           /\ ~confirming')]_vars

\* the first selected item whose removal fails
FirstFailure ==
    CHOOSE k \in SelectedIdx(Items) :
        /\ ~RemoveOk(disk, Items[k].Path)
        /\ \A i \in SelectedIdx(Items) : i < k => RemoveOk(disk, Items[i].Path)

(* C3.  Confirm-delete when the removal of the k-th selected item fails:   *)
(* the selected items before it are removed from the filesystem and from   *)
(* the collection, no removal is attempted after it, it and the later      *)
(* selected items are still in the collection and selected, the failure    *)
(* is recorded in err and confirming is false.                             *)
C3_ConfirmDeleteStopsAtFailure ==
    [][(/\ ConfirmDelete
        /\ confirming
        /\ \E i \in SelectedIdx(Items) : ~RemoveOk(disk, Items[i].Path))
       => LET k == FirstFailure
              sel == SelectedIdx(Items)
          IN /\ \A i \in sel : i < k =>
                    /\ ~Exists(disk', Items[i].Path)
                    /\ Items[i].Path \notin PathsOf(Items')
             /\ Len(removeCalls') = Cardinality({i \in sel : i <= k})
             /\ \A n \in 1..Len(removeCalls') :
                    \E i \in sel : i <= k /\ removeCalls'[n] = Items[i].Path
             /\ \A i \in sel : i >= k =>
                    /\ Exists(disk', Items[i].Path) = Exists(disk, Items[i].Path)
                    /\ \E j \in SelectedIdx(Items') : Items'[j].Path = Items[i].Path
             /\ err' = <<Items[k].Path>>
             /\ ~confirming']_vars

(* C4.  No deletion without confirmation: os.Remove is called, and the     *)
(* filesystem changes, only in a confirm-delete handled with confirming    *)
(* true, which is so only after a request-delete with no cancel-delete or  *)
(* confirm-delete since; a confirm-delete handled with confirming false    *)
(* changes nothing.                                                        *)
C4_NoDeletionWithoutConfirmation ==
    [][/\ (removeCalls' # <<>> \/ disk' # disk) =>
              (ConfirmDelete /\ confirming /\ armed)
       /\ (~confirming /\ ConfirmDelete) =>
              /\ removeCalls' = <<>>
              /\ UNCHANGED <<pc, exitCode, disk, sessionVars, basePath>>]_vars

\* a confirm-delete has removed a listed file
C4_Witness ==
    /\ pc = "running"
    /\ removeCalls # <<>>
    /\ \E i \in 1..Len(files) : ~Exists(disk, files[i].Path)

(* C5.  Startup scan failure: when the root given on the command line      *)
(* cannot be opened or resolved, here because it does not exist, the       *)
(* session is never started and the process exits with code 1.             *)
C5_StartupScanFailure ==
    (/\ pc # "start"
     /\ Len(args) >= 1
     /\ Abs(args[1], cwd).err = "nil"
     /\ ~Exists(disk, RootPath))
    => (pc = "exited" /\ exitCode = 1)

\* the regular files below folder p that no dot-named file or directory at
\* or below p's children hides
CountedBelow(fs, p) ==
    {q \in DOMAIN fs : IsUnder(q, p) /\ ~fs[q].isDir /\ ~DotBelow(q, Len(p) + 1)}

(* C6.  Folder size: the size of every Item of folders is the sum of the   *)
(* sizes of the regular files below the folder that are not dot-named and  *)
(* not under a dot-named directory.                                        *)
C6_FolderSize ==
    pc = "running" =>
        \A i \in 1..Len(folders) :
            folders[i].Size = SumSizes(disk, CountedBelow(disk, folders[i].Path))

(* C7.  Hidden-entry exclusion: no Item of files or folders is dot-named   *)
(* or lies under a dot-named directory of the scanned tree, and the scan   *)
(* visits nothing under a dot-named directory.                             *)
C7_HiddenExcluded ==
    pc = "running" =>
        /\ \A p \in PathsOf(files) \cup PathsOf(folders) : ~DotBelow(p, Len(basePath))
        /\ \A n \in 1..Len(visited) :
               ~DotBelow(Parent(visited[n]), Len(basePath))

\* a scan of a tree with a file in a dot-named directory and a dot-named
\* entry beside listed ones
C7_Witness ==
    /\ pc = "running"
    /\ \E q \in DOMAIN disk :
           /\ ~disk[q].isDir
           /\ ~HasDotPrefix(Base(q))
           /\ DotBelow(Parent(q), Len(basePath) + 1)
    /\ files # <<>>
    /\ Len(folders) >= 2

(* C8.  Sorted collections: files and folders are each ordered by          *)
(* non-increasing size when the scan returns them and in every state of    *)
(* the session after.                                                      *)
C8_Sorted ==
    pc = "running" => (SortedDesc(files) /\ SortedDesc(folders))

\* the scan met the smaller file first, and the session has since removed
\* a file
C8_Witness ==
    /\ pc = "running"
    /\ Len(files) = 2
    /\ files[1].Size > files[2].Size
    /\ NameLess(Base(files[2].Path), Base(files[1].Path))
    /\ \E i \in 1..2 : ~Exists(disk, files[i].Path)

\* the root is a readable directory that is not dot-named and holds regular
\* files that are not dot-named, at least one, and nothing else
RootHoldsOnlyFiles ==
    /\ Exists(disk, RootPath)
    /\ disk[RootPath].isDir
    /\ disk[RootPath].readable
    /\ ~HasDotPrefix(Base(RootPath))
    /\ DOMAIN disk # {RootPath}
    /\ \A q \in (DOMAIN disk) \ {RootPath} :
           Parent(q) = RootPath /\ ~disk[q].isDir /\ ~HasDotPrefix(Base(q))

(* C9.  Root with only files: files holds exactly the files of the root    *)
(* in descending order of size and folders is empty (the root is not an    *)
(* Item of folders).                                                       *)
C9_RootWithOnlyFiles ==
    (pc = "running" /\ RootHoldsOnlyFiles) =>
        /\ PathsOf(files) = (DOMAIN disk) \ {RootPath}
        /\ Len(files) = Cardinality((DOMAIN disk) \ {RootPath})
        /\ \A i \in 1..Len(files) : files[i].Size = disk[files[i].Path].size
        /\ SortedDesc(files)
        /\ folders = <<>>

(* C10.  switch-view: from any state of the session a switch-view event    *)
(* turns the files view into the folders view and the folders view into    *)
(* the files view, and sets cursor and offset to 0.                        *)
C10_SwitchView ==
    [][Len(switchedFrom') = 2 =>
          /\ viewMode \in {"files", "folders"}
          /\ viewMode = "files" => viewMode' = "folders"
          /\ viewMode = "folders" => viewMode' = "files"
          /\ cursor' = 0
          /\ offset' = 0]_vars

\* a switch-view was handled with the cursor and the offset past 0, the
\* confirmation pending and a viewport other than the default
C10_Witness ==
    /\ pc = "running"
    /\ Len(switchedFrom) = 2
    /\ switchedFrom[1] > 0
    /\ switchedFrom[2] > 0
    /\ confirming
    /\ height # DefaultHeight
    /\ cursor = 0
    /\ offset = 0

----------------------------------------------------------------------------
(* C11.  Jump-end: for every collection length and viewport height the     *)
(* event sets cursor = lastIndex and offset = max(0, lastIndex -           *)
(* visibleRows + 1), with lastIndex = len(active collection) - 1 and       *)
(* visibleRows = max(1, height - 4).                                       *)
C11_JumpEnd ==
    [][End =>
          /\ cursor' = Len(Items) - 1
          /\ offset' = MaxI(0, (Len(Items) - 1) - VisibleRows + 1)]_vars

(* C12.  Toggle-select is an involution: with a non-empty active           *)
(* collection and a valid cursor, a toggle-select negates the selected     *)
(* flag of the item at the cursor and changes nothing else (no other item  *)
(* of either collection, not the cursor, not the view), so that a second   *)
(* toggle at the same cursor position restores the flag.                   *)
ToggledAt(items, i) == [items EXCEPT ![i].IsSelected = ~@]

ValidCursor == Len(Items) > 0 /\ cursor \in 0..(Len(Items) - 1)

C12_ToggleSelectInvolution ==
    [][(ToggleSelect /\ ValidCursor) =>
          /\ cursor' = cursor
          /\ viewMode' = viewMode
          /\ files' = IF viewMode = "files" THEN ToggledAt(files, cursor + 1) ELSE files
          /\ folders' = IF viewMode = "folders" THEN ToggledAt(folders, cursor + 1)
                        ELSE folders
          /\ ToggledAt(Items', cursor' + 1) = Items]_vars

\* the second of two files is selected under the cursor, the first is not,
\* and no folder is
C12_Witness ==
    /\ pc = "running"
    /\ viewMode = "files"
    /\ Len(files) = 2
    /\ cursor = 1
    /\ files[2].IsSelected
    /\ ~files[1].IsSelected
    /\ \A i \in 1..Len(folders) : ~folders[i].IsSelected

(* C13.  Toggle-select precondition: a toggle-select received while the    *)
(* active collection is empty or the cursor is not a valid index           *)
(* completes without failure and changes no selected flag.                 *)
C13_ToggleSelectPrecondition ==
    [][(ToggleSelect /\ ~ValidCursor) =>
          /\ pc' = "running"
          /\ files' = files
          /\ folders' = folders]_vars

(* C14.  Cancel-delete: received while confirming is true it sets           *)
(* confirming to false and leaves the view, the cursor, the offset, every  *)
(* selected flag, both collections, the error and the filesystem           *)
(* unchanged; received while confirming is false it changes nothing.       *)
C14_CancelDeleteFrame ==
    [][CancelDelete =>
          /\ confirming' = FALSE
          /\ ~confirming => confirming' = confirming
          /\ UNCHANGED <<viewMode, cursor, offset, files, folders, err, disk>>]_vars

\* a pending confirmation was cancelled with the cursor past 0 and a selected
\* item in each collection
C14_Witness ==
    /\ pc = "running"
    /\ cancelled
    /\ ~confirming
    /\ cursor > 0
    /\ \E i \in 1..Len(files) : files[i].IsSelected
    /\ \E i \in 1..Len(folders) : folders[i].IsSelected

(* C15.  Session frozen after a delete failure: once a confirm-delete has  *)
(* recorded an error, no later input event other than quit changes the     *)
(* cursor, the offset, the view, confirming or any selected flag, and no   *)
(* further removal from the filesystem is attempted.                       *)
Flags(items) == [i \in 1..Len(items) |-> items[i].IsSelected]

C15_FrozenAfterDeleteFailure ==
    [][(pc = "running" /\ err # <<>> /\ pc' # "exited") =>
          /\ UNCHANGED <<cursor, offset, viewMode, confirming>>
          /\ Flags(files') = Flags(files)
          /\ Flags(folders') = Flags(folders)
          /\ removeCalls' = <<>>
          /\ disk' = disk]_vars

(* C16.  The error frame is latched: once a failed confirm-delete has set  *)
(* the error, no later input or resize event clears it, and every frame    *)
(* rendered from then until quit is the error-only frame, also after a     *)
(* later request-delete/confirm-delete cycle whose removals all succeed.   *)
C16_ErrorFrameLatched ==
    [][(pc' = "running" /\ (err # <<>> \/ err' # <<>>)) =>
          /\ err' # <<>>
          /\ frame' = "error"]_vars

\* with the error of a failed removal recorded, a later confirm-delete has
\* removed every item of its batch, and the frame is the error frame
C16_Witness ==
    /\ pc = "running"
    /\ err # <<>>
    /\ err[1] \in DOMAIN disk
    /\ removeCalls # <<>>
    /\ \A i \in 1..Len(removeCalls) : removeCalls[i] \notin DOMAIN disk
    /\ frame = "error"

(* C17.  Confirm-delete acts on the active collection only: it attempts    *)
(* removal only for selected items of the collection that is active when   *)
(* the event is handled; the other collection keeps its items and their    *)
(* selected flags, and none of its items is removed from the filesystem,   *)
(* whatever view the request-delete was issued in.                         *)
Inactive == IF viewMode = "folders" THEN files ELSE folders

C17_ConfirmDeleteActiveOnly ==
    [][ConfirmDelete =>
          /\ Inactive' = Inactive
          /\ \A k \in 1..Len(removeCalls') :
                \E i \in 1..Len(Items) :
                    Items[i].IsSelected /\ Items[i].Path = removeCalls'[k]
          /\ \A p \in DOMAIN disk :
                p \notin DOMAIN disk' => \E k \in 1..Len(removeCalls') : removeCalls'[k] = p
          /\ \A i \in 1..Len(Inactive) :
                Inactive[i].Path \in DOMAIN disk => Inactive[i].Path \in DOMAIN disk']_vars

\* a confirm-delete handled in the files view has removed a file while a
\* folder is selected: the folder is still selected and still on the disk
C17_Witness ==
    /\ pc = "running"
    /\ viewMode = "files"
    /\ removeCalls # <<>>
    /\ \E k \in 1..Len(removeCalls) : removeCalls[k] \notin DOMAIN disk
    /\ \E i \in 1..Len(folders) :
          folders[i].IsSelected /\ folders[i].Path \in DOMAIN disk

(* C18.  The cursor stays visible: after any interleaving of input and     *)
(* resize events, when View renders a non-empty active collection the      *)
(* rows it shows, from the offset after its bounds to that offset plus     *)
(* visibleRows, lie within the collection and contain the cursor row.      *)
C18_CursorVisible ==
    (pc = "running" /\ frame = "list") =>
        /\ 0 <= ViewOffset
        /\ ViewEnd <= Len(Items)
        /\ ViewOffset <= cursor
        /\ cursor < ViewEnd

(* C19.  Rendering is total: in every reachable state, for every width     *)
(* and height a resize delivers and every name length, View returns a      *)
(* frame; no slice bound of the visible window or of the truncation of     *)
(* the name and path columns is out of range.                              *)
C19_RenderingTotal == frame # "panic"

(* C20.  Folder-size error recovery: when the sum of a directory's         *)
(* contents fails on one of its descendants, the directory is left out of  *)
(* folders, the scan still succeeds, and every other entry the walk can    *)
(* read that is not excluded is listed, the files inside that directory    *)
(* included.                                                               *)

\* the walk from the root gets to q: every directory above q, from the root
\* down, can be read
Reached(q) ==
    /\ Exists(disk, q)
    /\ q = RootPath \/ IsUnder(q, RootPath)
    /\ \A n \in Len(RootPath)..(Len(q) - 1) :
           disk[SubSeq(q, 1, n)].isDir /\ disk[SubSeq(q, 1, n)].readable

\* the entries the scan lists when nothing fails
Listable(q) == Reached(q) /\ ~DotBelow(q, Len(RootPath))

\* summing directory p fails: a directory at or below it cannot be read
SumFails(p) ==
    \E q \in DOMAIN disk :
        (q = p \/ IsUnder(q, p)) /\ disk[q].isDir /\ ~disk[q].readable

C20_FolderSizeErrorRecovery ==
    (/\ pc # "start"
     /\ Len(args) >= 1
     /\ Abs(args[1], cwd).err = "nil"
     /\ \E p \in DOMAIN disk : Listable(p) /\ disk[p].isDir /\ SumFails(p))
    => /\ pc = "running"
       /\ \A p \in DOMAIN disk :
              (Listable(p) /\ disk[p].isDir) =>
                  (p \in PathsOf(folders) <=> ~SumFails(p))
       /\ \A q \in DOMAIN disk :
              (Listable(q) /\ ~disk[q].isDir) => q \in PathsOf(files)

\* the sum of a readable directory below the root failed on an unreadable
\* directory inside it: the directory and the root are not listed, a file of
\* the directory is, and so is a folder beside it
C20_Witness ==
    /\ pc = "running"
    /\ \E p \in DOMAIN disk :
           /\ p # RootPath
           /\ Listable(p)
           /\ disk[p].isDir
           /\ disk[p].readable
           /\ SumFails(p)
           /\ p \notin PathsOf(folders)
           /\ \E i \in 1..Len(files) : Parent(files[i].Path) = p
    /\ RootPath \notin PathsOf(folders)
    /\ folders # <<>>

====
